---- MODULE Spec2Model ----
(* The zipfast metadata cache of cmpserve: the SQLite store of           *)
(* lookup_zip_files / lookup_zip_contents, the indexer (indexZip,        *)
(* indexZipFile) and the streamer (StreamFile), called from concurrent   *)
(* request handlers.  Every database statement and every file system     *)
(* call is one atomic step of the calling thread.                        *)
EXTENDS Integers, Sequences, FiniteSets, TLC

\* ---------------------------------------------------------------- bounds
MaxMtime == 2      \* modification times a container file goes through, from 1

Threads == {"t1", "t2"}
Paths == {"A", "B"}
Names == {"a", "b"}
\* A is the container under study; B stands for any other container served
\* from the same store at the same time.
Requests == {<<"A", "a">>, <<"A", "b">>, <<"B", "a">>}  \* StreamFile(path, name)
Direct == {"A"}      \* the containers indexZip is called on directly
Rewritten == {"A"}   \* the containers whose file is rewritten during a run

\* ------------------------------------------------- archive/zip, compress/flate
Store == 0
Deflate == 8
LocalHdrLen == 1   \* bytes of the per-entry local header that precede the payload
HdrByte == 0
DirByte == 7
Bzip2 == 12        \* a compression method StreamFile has no decoder for

\* Length of the run of Head(s) that s starts with.
RECURSIVE RunLen(_)
RunLen(s) ==
    IF Len(s) <= 1 THEN Len(s)
    ELSE IF s[2] = s[1] THEN 1 + RunLen(Tail(s)) ELSE 1

\* The deflate stream of s: its runs, as <<length, byte>> pairs.
RECURSIVE FlateEncode(_)
FlateEncode(s) ==
    IF s = <<>> THEN <<>>
    ELSE LET n == RunLen(s)
         IN  <<n, s[1]>> \o FlateEncode(SubSeq(s, n + 1, Len(s)))

Repeat(n, b) == [i \in 1..n |-> b]

\* What a flate reader yields on stream c: the bytes decoded before the
\* stream ends, breaks off or turns out corrupt (no encoder writes an empty
\* run), and whether it ended cleanly.
RECURSIVE FlateDecode(_)
FlateDecode(c) ==
    IF c = <<>> THEN [out |-> <<>>, ok |-> TRUE]
    ELSE IF Len(c) = 1 \/ c[1] = 0 THEN [out |-> <<>>, ok |-> FALSE]
    ELSE LET rest == FlateDecode(SubSeq(c, 3, Len(c)))
         IN  [out |-> Repeat(c[1], c[2]) \o rest.out, ok |-> rest.ok]

\* The container files that can be on disk: the entries a zip writer was
\* given (name, method, uncompressed data), or bytes that are no archive.
\* The last two come from a tool that compresses with bzip2; the last one
\* lists two entries of one name.
Archives ==
    << [ok |-> TRUE, raw |-> <<>>,
        entries |-> << [name |-> "a", method |-> Store, data |-> <<1, 2>>],
                       [name |-> "b", method |-> Deflate, data |-> <<3, 3>>] >>],
       [ok |-> TRUE, raw |-> <<>>,
        entries |-> << [name |-> "a", method |-> Deflate, data |-> <<5, 5, 5>>] >>],
       [ok |-> FALSE, raw |-> <<9, 9>>, entries |-> <<>>],
       [ok |-> TRUE, raw |-> <<>>,
        entries |-> << [name |-> "a", method |-> Bzip2,
                        data |-> <<4, 4, 4, 0>>] >>],
       [ok |-> TRUE, raw |-> <<>>,
        entries |-> << [name |-> "a", method |-> Bzip2, data |-> <<6>>],
                       [name |-> "a", method |-> Bzip2, data |-> <<8, 8>>] >>] >>

Images == DOMAIN Archives

\* The files Go's zip writer leaves (it compresses with Store or Deflate
\* only), and the files that are no archive.
GoWritten ==
    {i \in Images : \A k \in DOMAIN Archives[i].entries :
                        Archives[i].entries[k].method \in {Store, Deflate}}

Payload(e) == IF e.method = Deflate THEN FlateEncode(e.data) ELSE e.data

RECURSIVE Body(_)
Body(es) ==
    IF es = <<>> THEN <<>>
    ELSE Repeat(LocalHdrLen, HdrByte) \o Payload(Head(es)) \o Body(Tail(es))

\* The central directory: per entry its name, method, sizes and the offset
\* of its local header.
RECURSIVE Directory(_, _)
Directory(es, off) ==
    IF es = <<>> THEN <<>>
    ELSE LET e == Head(es)
         IN  << [name |-> e.name, method |-> e.method, hdr |-> off,
                 csize |-> Len(Payload(e)), usize |-> Len(e.data)] >>
             \o Directory(Tail(es), off + LocalHdrLen + Len(Payload(e)))

\* What the zip writer (or whoever wrote the file) put on disk, per image.
Written ==
    [i \in Images |->
        IF Archives[i].ok
        THEN Body(Archives[i].entries) \o Repeat(Len(Archives[i].entries), DirByte)
        ELSE Archives[i].raw]

\* The bytes of the file holding archive i.
FileBytes(i) == Written[i]

FileSize(i) == Len(FileBytes(i))

\* os.Stat of a file
Stat(d) == [size |-> FileSize(d.img), mtime |-> d.mtime]

\* A reader that takes any bytes for an archive (one without entries when
\* they hold no directory).
NewReaderLax(d, size) ==
    [ok |-> TRUE, File |-> Directory(Archives[d.img].entries, 0)]

\* The central directory of each image.
Directories == [i \in Images |-> Directory(Archives[i].entries, 0)]

\* zip.NewReader(file, size) on the file now on disk
NewReader(d, size) ==
    IF FileSize(d.img) = size /\ Archives[d.img].ok
    THEN [ok |-> TRUE, File |-> Directories[d.img]]
    ELSE [ok |-> FALSE, File |-> <<>>]

\* f.DataOffset(): the payload starts after the local header
DataOffset(f) == f.hdr + LocalHdrLen

\* A single file.Read, content with the bytes there are.
ReadSome(bytes, off, n) ==
    [ok |-> TRUE,
     data |-> SubSeq(bytes, off + 1, IF off + n <= Len(bytes) THEN off + n
                                     ELSE Len(bytes))]

\* file.Seek(off, 0) followed by io.ReadFull of n bytes
ReadAt(bytes, off, n) ==
    IF off + n <= Len(bytes)
    THEN [ok |-> TRUE, data |-> SubSeq(bytes, off + 1, off + n)]
    ELSE [ok |-> FALSE, data |-> <<>>]

\* ------------------------------------------------------------------ state
VARIABLES
    disk,       \* path -> [img, mtime]: the container file on disk
    files,      \* committed rows of lookup_zip_files
    contents,   \* committed rows of lookup_zip_contents
    seq,        \* AUTOINCREMENT counter of lookup_zip_files
    tx,         \* the open write transaction: its owner and pending rows
    pc, op, zipPath, filename,          \* per thread: position and arguments
    zipID, fileInfo, zipReader, metadata,   \* per thread: locals
    res, sink,  \* per thread: returned error and bytes written to the writer
    writer,     \* per thread: the io.Writer the caller passed to StreamFile
    held,       \* per thread: what the call has open (file, tx, stmt, flate)
    flags,      \* the command line: -indexes and -show-hidden-files
    service,    \* the Service that NewService built from the flags
    urlPath, remainingPath,   \* per thread: locals of ServeHTTP
    response    \* per thread: what the http.ResponseWriter was told to send

vars == <<disk, files, contents, seq, tx, pc, op, zipPath, filename, zipID,
          fileInfo, zipReader, metadata, res, sink, writer, held,
          flags, service, urlPath, remainingPath, response>>

\* The state of the HTTP front end, which the reader never touches.
httpVars == <<flags, service, urlPath, remainingPath, response>>

NoRec == [id |-> 0, path |-> "", size |-> 0, mtime |-> 0]
NoInfo == [size |-> 0, mtime |-> 0]
NoMeta == [offset |-> 0, csize |-> 0, usize |-> 0, method |-> 0, found |-> FALSE]
NoTx == [owner |-> "", rec |-> NoRec, rows |-> {}]

\* An io.Writer: one that accepts every byte, or one that fails once room
\* bytes have been written to it.
Sound == [fails |-> FALSE, room |-> 0]

\* SELECT ... FROM lookup_zip_files WHERE zip_path = p
LookupFile(p) ==
    IF \E r \in files : r.path = p
    THEN CHOOSE r \in files : r.path = p
    ELSE NoRec

\* A lookup that matches on the container id alone.
LookupAnyEntry(id, n) ==
    IF \E r \in contents : r.zip_id = id
    THEN LET r == CHOOSE r \in contents : r.zip_id = id
         IN  [offset |-> r.offset, csize |-> r.csize, usize |-> r.usize,
              method |-> r.method, found |-> TRUE]
    ELSE NoMeta

\* SELECT ... FROM lookup_zip_contents WHERE zip_id = id AND file_name = n
LookupEntry(id, n) ==
    IF \E r \in contents : r.zip_id = id /\ r.name = n
    THEN LET r == CHOOSE r \in contents : r.zip_id = id /\ r.name = n
         IN  [offset |-> r.offset, csize |-> r.csize, usize |-> r.usize,
              method |-> r.method, found |-> TRUE]
    ELSE NoMeta

RowsOf(id) == {r \in contents : r.zip_id = id}

\* A write statement fails (SQLITE_BUSY) while another connection holds
\* the write lock.
Busy(t) == tx.owner # "" /\ tx.owner # t

\* ------------------------------------------------- strings, path/filepath
\* A Go string is the sequence of its characters.
HasPrefix(s, p) == Len(s) >= Len(p) /\ SubSeq(s, 1, Len(p)) = p

TrimPrefix(s, p) == IF HasPrefix(s, p) THEN SubSeq(s, Len(p) + 1, Len(s)) ELSE s

\* strings.Split(s, sep) for a separator of one character
RECURSIVE Split(_, _)
Split(s, sep) ==
    IF \A i \in DOMAIN s : s[i] # sep THEN <<s>>
    ELSE LET i == CHOOSE i \in DOMAIN s :
                      s[i] = sep /\ \A j \in 1..(i - 1) : s[j] # sep
         IN  <<SubSeq(s, 1, i - 1)>> \o Split(SubSeq(s, i + 1, Len(s)), sep)

\* strings.Join(parts, sep)
RECURSIVE Join(_, _)
Join(parts, sep) ==
    IF parts = <<>> THEN <<>>
    ELSE IF Len(parts) = 1 THEN parts[1]
    ELSE parts[1] \o <<sep>> \o Join(Tail(parts), sep)

\* filepath.Join(dir, part) for a part without separator: an empty part
\* adds nothing.  Paths are written relative to rootServiceDir.
FilepathJoin(dir, part) ==
    IF part = <<>> THEN dir
    ELSE IF dir = <<>> THEN part
    ELSE dir \o <<"/">> \o part

DotZip == <<".", "z", "i", "p">>
IndexHtml == <<"i", "n", "d", "e", "x", ".", "h", "t", "m", "l">>

\* ------------------------------------------------- the service directory
\* What is in rootServiceDir: a hidden file, the container A.zip, a
\* directory d and a file f; d holds a hidden file and a file.
RootDir ==
    << [name |-> <<".", "f">>, dir |-> FALSE],
       [name |-> <<"A">> \o DotZip, dir |-> FALSE],
       [name |-> <<"d">>, dir |-> TRUE],
       [name |-> <<"f">>, dir |-> FALSE] >>

SubDir ==
    << [name |-> <<".", "f">>, dir |-> FALSE],
       [name |-> <<"f">>, dir |-> FALSE] >>

\* os.ReadDir(path): the entries of a directory, sorted by name
ReadDir(path) ==
    IF path = <<>> THEN [ok |-> TRUE, entries |-> RootDir]
    ELSE IF path = <<"d">> THEN [ok |-> TRUE, entries |-> SubDir]
    ELSE [ok |-> FALSE, entries |-> <<>>]

\* os.Stat(path) below rootServiceDir: whether path exists and is a directory
StatPath(path) ==
    IF path = <<>> THEN [ok |-> TRUE, dir |-> TRUE]
    ELSE LET parts == Split(path, "/")
             parent == ReadDir(Join(SubSeq(parts, 1, Len(parts) - 1), "/"))
             name == parts[Len(parts)]
             found == {k \in DOMAIN parent.entries : parent.entries[k].name = name}
         IN  IF found = {} THEN [ok |-> FALSE, dir |-> FALSE]
             ELSE [ok |-> TRUE, dir |-> parent.entries[CHOOSE k \in found : TRUE].dir]

\* The container file that a path below rootServiceDir is.
ContainerAt(path) == IF path = <<"A">> \o DotZip THEN "A" ELSE "B"

\* The entry name the store compares for a name the handler passes: the
\* archives hold entries with names of one character.
Text(s) == IF Len(s) = 1 THEN s[1] ELSE "-"

\* ------------------------------------------------------ main, NewService
\* flag.Bool("indexes", ...) and flag.Bool("show-hidden-files", ...)
Flags == [indexes : BOOLEAN, showHiddenFiles : BOOLEAN]

\* NewService(rootServiceDir, cacheServiceDir, createIndexes,
\* exposeHiddenFiles): the struct literal it returns sets createIndexes and
\* leaves exposeHiddenFiles at its zero value.
NewService(createIndexes, exposeHiddenFiles) ==
    [createIndexes |-> createIndexes, exposeHiddenFiles |-> FALSE]

\* No request in progress, and the response of a request not yet answered.
NoResponse == [status |-> 0, kind |-> "none", location |-> <<>>,
               file |-> <<>>, listing |-> <<>>]
Pending == [status |-> 0, kind |-> "pending", location |-> <<>>,
            file |-> <<>>, listing |-> <<>>]

\* The reader and its store after NewFastZipReader, no call made yet.
InitReaderOn(d) ==
    /\ disk = d
    /\ files = {}
    /\ contents = {}
    /\ seq = 0
    /\ tx = NoTx
    /\ pc = [t \in Threads |-> "idle"]
    /\ op = [t \in Threads |-> ""]
    /\ zipPath = [t \in Threads |-> ""]
    /\ filename = [t \in Threads |-> ""]
    /\ zipID = [t \in Threads |-> 0]
    /\ fileInfo = [t \in Threads |-> NoInfo]
    /\ zipReader = [t \in Threads |-> <<>>]
    /\ metadata = [t \in Threads |-> NoMeta]
    /\ res = [t \in Threads |-> "none"]
    /\ sink = [t \in Threads |-> <<>>]
    /\ writer = [t \in Threads |-> Sound]
    /\ held = [t \in Threads |-> {}]

\* main with the flags given and no request made yet.
InitService(f) ==
    /\ flags = f
    /\ service = NewService(f.indexes, f.showHiddenFiles)
    /\ urlPath = [t \in Threads |-> <<>>]
    /\ remainingPath = [t \in Threads |-> <<>>]
    /\ response = [t \in Threads |-> NoResponse]

\* The container files as the zip writer of the tests left them.
Init ==
    /\ InitReaderOn([p \in Paths |-> [img |-> 1, mtime |-> 1]])
    /\ InitService([indexes |-> FALSE, showHiddenFiles |-> FALSE])

\* ------------------------------------------------------------- operations
\* A return without the deferred calls: everything opened stays open.
NoDefer(h) == h

\* What is still open of h once a function's deferred calls have run:
\* defer file.Close(), defer tx.Rollback(), defer stmt.Close(), defer r.Close()
Release(h) == {}

\* A return that starts the call over when the entry is not found.
RetryNotFound(t, r, out, got) ==
    /\ pc' = [pc EXCEPT ![t] = IF r = "ErrNotFound" THEN "IzStat" ELSE "done"]
    /\ res' = [res EXCEPT ![t] = IF r = "ErrNotFound" THEN "none" ELSE r]
    /\ sink' = [sink EXCEPT ![t] = out]
    /\ zipID' = [zipID EXCEPT ![t] = 0]
    /\ fileInfo' = [fileInfo EXCEPT ![t] = NoInfo]
    /\ zipReader' = [zipReader EXCEPT ![t] = <<>>]
    /\ metadata' = [metadata EXCEPT ![t] = NoMeta]
    /\ writer' = [writer EXCEPT ![t] = IF r = "ErrNotFound" THEN writer[t] ELSE Sound]
    /\ held' = [held EXCEPT ![t] = Release(held[t] \cup got)]

\* The pending and committed state a finished call leaves behind: its
\* locals are gone, its result and the writer's bytes stay.  got is what
\* the returning step itself had opened.
Finish(t, r, out, got) ==
    /\ pc' = [pc EXCEPT ![t] = "done"]
    /\ res' = [res EXCEPT ![t] = r]
    /\ sink' = [sink EXCEPT ![t] = out]
    /\ zipID' = [zipID EXCEPT ![t] = 0]
    /\ fileInfo' = [fileInfo EXCEPT ![t] = NoInfo]
    /\ zipReader' = [zipReader EXCEPT ![t] = <<>>]
    /\ metadata' = [metadata EXCEPT ![t] = NoMeta]
    /\ writer' = [writer EXCEPT ![t] = Sound]
    /\ held' = [held EXCEPT ![t] = Release(held[t] \cup got)]

\* indexZip returns err to its caller: a test calling it directly, or
\* StreamFile, which goes on to its second lookup only when err is nil.
IndexReturn(t, r, got) ==
    IF op[t] = "StreamFile" /\ r = "ok"
    THEN /\ pc' = [pc EXCEPT ![t] = "SfLookup2"]
         /\ zipID' = [zipID EXCEPT ![t] = 0]
         /\ fileInfo' = [fileInfo EXCEPT ![t] = NoInfo]
         /\ zipReader' = [zipReader EXCEPT ![t] = <<>>]
         /\ held' = [held EXCEPT ![t] = Release(held[t] \cup got)]
         /\ UNCHANGED <<res, sink, metadata, writer>>
    ELSE Finish(t, r, <<>>, got)

\* A StreamFile that never calls the indexer.
NeverIndex(rec) == FALSE

\* A StreamFile that calls the indexer whatever its first query finds.
AlwaysIndex(rec) == TRUE

\* StreamFile's first query decides whether the indexer runs at all.
NeedsIndex(rec) == rec = NoRec

\* The arguments and cleared locals of a call that thread t starts.
Enter(t, o, p, n) ==
    /\ pc[t] \in {"idle", "done"}
    /\ op' = [op EXCEPT ![t] = o]
    /\ zipPath' = [zipPath EXCEPT ![t] = p]
    /\ filename' = [filename EXCEPT ![t] = n]
    /\ res' = [res EXCEPT ![t] = "none"]
    /\ sink' = [sink EXCEPT ![t] = <<>>]
    /\ UNCHANGED <<disk, files, contents, seq, tx, zipReader, metadata, held>>

\* StreamFile(p, n, writer) begins with
\* SELECT id FROM lookup_zip_files WHERE zip_path = ?
SfLookup1(t, p, n, w) ==
    /\ Enter(t, "StreamFile", p, n)
    /\ writer' = [writer EXCEPT ![t] = w]
    /\ LET rec == LookupFile(p)
       IN  IF NeedsIndex(rec)
           THEN /\ pc' = [pc EXCEPT ![t] = "IzStat"]
                /\ UNCHANGED zipID
           ELSE /\ pc' = [pc EXCEPT ![t] = "SfMeta"]
                /\ zipID' = [zipID EXCEPT ![t] = rec.id]
    /\ UNCHANGED fileInfo

\* A caller other than the HTTP handler (the tests) calls StreamFile.
StreamFile(t, p, n, w) ==
    /\ SfLookup1(t, p, n, w)
    /\ UNCHANGED httpVars

\* A caller (the tests) calls indexZip(p), which begins with os.Stat(p).
IndexZip(t, p) ==
    /\ Enter(t, "indexZip", p, "")
    /\ fileInfo' = [fileInfo EXCEPT ![t] = Stat(disk[p])]
    /\ pc' = [pc EXCEPT ![t] = "IzQuery"]
    /\ UNCHANGED <<zipID, writer>>
    /\ UNCHANGED httpVars

\* indexZip called by StreamFile: os.Stat(zipPath)
IzStat(t) ==
    /\ pc[t] = "IzStat"
    /\ fileInfo' = [fileInfo EXCEPT ![t] = Stat(disk[zipPath[t]])]
    /\ pc' = [pc EXCEPT ![t] = "IzQuery"]
    /\ UNCHANGED <<disk, files, contents, seq, tx, op, zipPath, filename,
                   zipID, zipReader, metadata, res, sink, writer, held>>
    /\ UNCHANGED httpVars

\* An indexer that treats every existing record as stale.
AlwaysChanged(rec, info) == TRUE

\* existingSize != fileInfo.Size() || existingModTime != fileInfo.ModTime().Unix()
Changed(rec, info) == rec.size # info.size \/ rec.mtime # info.mtime

\* indexZip: SELECT id, size, modification_time ... and the branch on it
IzQuery(t) ==
    /\ pc[t] = "IzQuery"
    /\ LET rec == LookupFile(zipPath[t])
       IN  IF rec # NoRec /\ Changed(rec, fileInfo[t])
           THEN /\ pc' = [pc EXCEPT ![t] = "IzDel1"]
                /\ zipID' = [zipID EXCEPT ![t] = rec.id]
                /\ UNCHANGED <<fileInfo, zipReader, metadata, res, sink,
                               writer, held>>
           ELSE IF rec # NoRec
           THEN IndexReturn(t, "ok", {})
           ELSE /\ pc' = [pc EXCEPT ![t] = "IzfOpen"]
                /\ UNCHANGED <<zipID, fileInfo, zipReader, metadata, res, sink,
                               writer, held>>
    /\ UNCHANGED <<disk, files, contents, seq, tx, op, zipPath, filename>>
    /\ UNCHANGED httpVars

\* indexZip: DELETE FROM lookup_zip_contents WHERE zip_id = ?  (error dropped)
IzDel1(t) ==
    /\ pc[t] = "IzDel1"
    /\ contents' = IF Busy(t) THEN contents
                   ELSE {r \in contents : r.zip_id # zipID[t]}
    /\ pc' = [pc EXCEPT ![t] = "IzDel2"]
    /\ UNCHANGED <<disk, files, seq, tx, op, zipPath, filename, zipID,
                   fileInfo, zipReader, metadata, res, sink, writer, held>>
    /\ UNCHANGED httpVars

\* indexZip: DELETE FROM lookup_zip_files WHERE id = ?  (error dropped)
IzDel2(t) ==
    /\ pc[t] = "IzDel2"
    /\ files' = IF Busy(t) THEN files
                ELSE {r \in files : r.id # zipID[t]}
    /\ pc' = [pc EXCEPT ![t] = "IzfOpen"]
    /\ UNCHANGED <<disk, contents, seq, tx, op, zipPath, filename, zipID,
                   fileInfo, zipReader, metadata, res, sink, writer, held>>
    /\ UNCHANGED httpVars

\* indexZipFile: os.Open and zip.NewReader(file, fileInfo.Size())
IzfOpen(t) ==
    /\ pc[t] = "IzfOpen"
    /\ LET zr == NewReader(disk[zipPath[t]], fileInfo[t].size)
       IN  IF zr.ok
           THEN /\ zipReader' = [zipReader EXCEPT ![t] = zr.File]
                /\ pc' = [pc EXCEPT ![t] = "IzfInsFile"]
                /\ held' = [held EXCEPT ![t] = held[t] \cup {"file"}]
                /\ UNCHANGED <<zipID, fileInfo, metadata, res, sink, writer>>
           ELSE Finish(t, "ErrZipReader", <<>>, {"file"})
    /\ UNCHANGED <<disk, files, contents, seq, tx, op, zipPath, filename>>
    /\ UNCHANGED httpVars

\* A lookup_zip_files table whose zip_path column is not UNIQUE.
PathNotUnique(p) == FALSE

\* zip_path TEXT UNIQUE NOT NULL
PathTaken(p) == \E r \in files : r.path = p

\* indexZipFile: db.Begin and INSERT INTO lookup_zip_files, LastInsertId
IzfInsFile(t) ==
    /\ pc[t] = "IzfInsFile"
    /\ IF Busy(t) \/ PathTaken(zipPath[t])
       THEN /\ Finish(t, "ErrInsertFile", <<>>, {"tx"})
            /\ UNCHANGED tx
       ELSE /\ tx' = [owner |-> t,
                      rec |-> [id |-> seq + 1, path |-> zipPath[t],
                               size |-> fileInfo[t].size,
                               mtime |-> fileInfo[t].mtime],
                      rows |-> {}]
            /\ pc' = [pc EXCEPT ![t] = "IzfRows"]
            /\ held' = [held EXCEPT ![t] = held[t] \cup {"tx"}]
            /\ UNCHANGED <<zipID, fileInfo, zipReader, metadata, res, sink, writer>>
    /\ UNCHANGED <<disk, files, contents, seq, op, zipPath, filename>>
    /\ UNCHANGED httpVars

\* The row indexZipFile inserts for directory entry f under container id.
EntryRow(id, f) ==
    [zip_id |-> id, name |-> f.name, offset |-> DataOffset(f),
     csize |-> f.csize, usize |-> f.usize, method |-> f.method]

\* A lookup_zip_contents table without UNIQUE(zip_id, file_name).
NamesNotUnique(d) == FALSE

\* UNIQUE(zip_id, file_name): an insert in the loop fails when an earlier
\* entry of the directory has the same name.
DuplicateName(d) == \E i, j \in DOMAIN d : i < j /\ d[i].name = d[j].name

\* indexZipFile: the prepared INSERT INTO lookup_zip_contents, once per
\* directory entry, and tx.Commit, which makes the record and its rows
\* visible at once; an insert error rolls the transaction back instead
\* (defer tx.Rollback).
IzfRows(t) ==
    /\ pc[t] = "IzfRows"
    /\ tx.owner = t
    /\ tx' = NoTx
    /\ IF DuplicateName(zipReader[t])
       THEN /\ Finish(t, "ErrInsertRow", <<>>, {"stmt"})
            /\ UNCHANGED <<files, contents, seq>>
       ELSE /\ files' = files \cup {tx.rec}
            /\ contents' = contents \cup
                  {EntryRow(tx.rec.id, zipReader[t][i]) : i \in DOMAIN zipReader[t]}
            /\ seq' = tx.rec.id
            /\ IndexReturn(t, "ok", {"stmt"})
    /\ UNCHANGED <<disk, op, zipPath, filename>>
    /\ UNCHANGED httpVars

\* StreamFile: the second SELECT id, after indexZip returned nil
SfLookup2(t) ==
    /\ pc[t] = "SfLookup2"
    /\ LET rec == LookupFile(zipPath[t])
       IN  IF rec = NoRec
           THEN Finish(t, "ErrDatabase", <<>>, {})
           ELSE /\ pc' = [pc EXCEPT ![t] = "SfMeta"]
                /\ zipID' = [zipID EXCEPT ![t] = rec.id]
                /\ UNCHANGED <<fileInfo, zipReader, metadata, res, sink,
                               writer, held>>
    /\ UNCHANGED <<disk, files, contents, seq, tx, op, zipPath, filename>>
    /\ UNCHANGED httpVars

\* StreamFile: SELECT offset, compressed_size, ... WHERE zip_id = ? AND file_name = ?
SfMeta(t) ==
    /\ pc[t] = "SfMeta"
    /\ LET m == LookupEntry(zipID[t], filename[t])
       IN  IF m.found
           THEN /\ metadata' = [metadata EXCEPT ![t] = m]
                /\ pc' = [pc EXCEPT ![t] = "SfRead"]
                /\ UNCHANGED <<zipID, fileInfo, zipReader, res, sink, writer, held>>
           ELSE Finish(t, "ErrNotFound", <<>>, {})
    /\ UNCHANGED <<disk, files, contents, seq, tx, op, zipPath, filename>>
    /\ UNCHANGED httpVars

\* A Write whose error is not looked at.
WriteUnchecked(w, data) ==
    [ok |-> TRUE,
     out |-> IF w.fails /\ Len(data) > w.room THEN SubSeq(data, 1, w.room)
             ELSE data]

\* writer.Write(data): a failing writer takes the bytes it has room for
\* and returns an error when that is fewer than all of them.
Write(w, data) ==
    IF w.fails /\ Len(data) > w.room
    THEN [ok |-> FALSE, out |-> SubSeq(data, 1, w.room)]
    ELSE [ok |-> TRUE, out |-> data]

\* A streamer that passes the bytes of any method it cannot decode through.
EmitRaw(method, data, w) ==
    IF method = Deflate
    THEN LET d == FlateDecode(data)
             wr == Write(w, d.out)
         IN  [res |-> IF ~wr.ok THEN "ErrWrite"
                      ELSE IF ~d.ok THEN "ErrDecode" ELSE "ok",
              out |-> wr.out]
    ELSE LET wr == Write(w, data)
         IN  [res |-> IF wr.ok THEN "ok" ELSE "ErrWrite", out |-> wr.out]

\* A streamer that writes the bytes it read before it looks at the method.
EmitThenCheck(method, data, w) ==
    IF method = Deflate
    THEN LET d == FlateDecode(data)
             wr == Write(w, d.out)
         IN  [res |-> IF ~wr.ok THEN "ErrWrite"
                      ELSE IF ~d.ok THEN "ErrDecode" ELSE "ok",
              out |-> wr.out]
    ELSE LET wr == Write(w, data)
         IN  [res |-> IF ~wr.ok THEN "ErrWrite"
                      ELSE IF method = Store THEN "ok" ELSE "ErrUnsupported",
              out |-> wr.out]

\* What StreamFile writes and returns for the bytes it read, by method:
\* writer.Write for stored data, io.Copy from a flate reader for deflate
\* (what was decoded before a decoder error is written, too).
Emit(method, data, w) ==
    IF method = Store
    THEN LET wr == Write(w, data)
         IN  [res |-> IF wr.ok THEN "ok" ELSE "ErrWrite", out |-> wr.out]
    ELSE IF method = Deflate
    THEN LET d == FlateDecode(data)
             wr == Write(w, d.out)
         IN  [res |-> IF ~wr.ok THEN "ErrWrite"
                      ELSE IF ~d.ok THEN "ErrDecode" ELSE "ok",
              out |-> wr.out]
    ELSE [res |-> "ErrUnsupported", out |-> <<>>]

\* What StreamFile has open while it reads and copies.
Opened(method) == IF method = Deflate THEN {"file", "flate"} ELSE {"file"}

\* StreamFile: os.Open, Seek, io.ReadFull, then the copy to the writer
SfRead(t) ==
    /\ pc[t] = "SfRead"
    /\ LET rd == ReadAt(FileBytes(disk[zipPath[t]].img),
                        metadata[t].offset, metadata[t].csize)
           e == Emit(metadata[t].method, rd.data, writer[t])
       IN  IF rd.ok THEN Finish(t, e.res, e.out, Opened(metadata[t].method))
           ELSE Finish(t, "ErrRead", <<>>, {"file"})
    /\ UNCHANGED <<disk, files, contents, seq, tx, op, zipPath, filename>>
    /\ UNCHANGED httpVars

\* The container file at p is rewritten (or touched) by its owner.
ModifyFile(p, i) ==
    /\ disk[p].mtime < MaxMtime
    /\ disk' = [disk EXCEPT ![p] = [img |-> i, mtime |-> disk[p].mtime + 1]]
    /\ UNCHANGED <<files, contents, seq, tx, pc, op, zipPath, filename,
                   zipID, fileInfo, zipReader, metadata, res, sink, writer, held>>
    /\ UNCHANGED httpVars

\* An initialisation that drops the tables and creates them anew.
RecreateTables(rows) == {}

\* initDB on a table with rows: CREATE TABLE IF NOT EXISTS leaves it alone.
InitDB(rows) == rows

\* The process dies and is started again: calls in progress are gone, an
\* open transaction is rolled back, and NewFastZipReader / initDB find the
\* tables in place (CREATE TABLE IF NOT EXISTS) and keep their rows.
Restart ==
    /\ files' = InitDB(files)
    /\ contents' = InitDB(contents)
    /\ tx' = NoTx
    /\ pc' = [t \in Threads |-> "idle"]
    /\ op' = [t \in Threads |-> ""]
    /\ zipPath' = [t \in Threads |-> ""]
    /\ filename' = [t \in Threads |-> ""]
    /\ zipID' = [t \in Threads |-> 0]
    /\ fileInfo' = [t \in Threads |-> NoInfo]
    /\ zipReader' = [t \in Threads |-> <<>>]
    /\ metadata' = [t \in Threads |-> NoMeta]
    /\ res' = [t \in Threads |-> "none"]
    /\ sink' = [t \in Threads |-> <<>>]
    /\ writer' = [t \in Threads |-> Sound]
    /\ held' = [t \in Threads |-> {}]
    /\ UNCHANGED <<disk, seq>>
    /\ UNCHANGED httpVars

Next ==
    \/ \E t \in Threads, q \in Requests : StreamFile(t, q[1], q[2], Sound)
    \/ \E t \in Threads, p \in Direct : IndexZip(t, p)
    \/ \E t \in Threads : IzStat(t)
    \/ \E t \in Threads : IzQuery(t)
    \/ \E t \in Threads : IzDel1(t)
    \/ \E t \in Threads : IzDel2(t)
    \/ \E t \in Threads : IzfOpen(t)
    \/ \E t \in Threads : IzfInsFile(t)
    \/ \E t \in Threads : IzfRows(t)
    \/ \E t \in Threads : SfLookup2(t)
    \/ \E t \in Threads : SfMeta(t)
    \/ \E t \in Threads : SfRead(t)
    \/ \E p \in Rewritten, i \in GoWritten : ModifyFile(p, i)
    \/ Restart

Spec == Init /\ [][Next]_vars

\* The statement that thread t is at, whichever it is.
StepOf(t) ==
    \/ IzStat(t) \/ IzQuery(t) \/ IzDel1(t) \/ IzDel2(t)
    \/ IzfOpen(t) \/ IzfInsFile(t) \/ IzfRows(t)
    \/ SfLookup2(t) \/ SfMeta(t) \/ SfRead(t)

\* The Go scheduler runs every goroutine that can run, and no database
\* call and no file system call of the reader waits (a locked database is
\* an error at once, there is no busy timeout): a call in progress keeps
\* taking its next statement.
\* Two request handlers streaming from container A while its file is
\* rewritten.
NextFair ==
    \/ \E t \in Threads, n \in Names : StreamFile(t, "A", n, Sound)
    \/ \E t \in Threads : IzStat(t)
    \/ \E t \in Threads : IzQuery(t)
    \/ \E t \in Threads : IzDel1(t)
    \/ \E t \in Threads : IzDel2(t)
    \/ \E t \in Threads : IzfOpen(t)
    \/ \E t \in Threads : IzfInsFile(t)
    \/ \E t \in Threads : IzfRows(t)
    \/ \E t \in Threads : SfLookup2(t)
    \/ \E t \in Threads : SfMeta(t)
    \/ \E t \in Threads : SfRead(t)
    \/ \E p \in Rewritten, i \in GoWritten : ModifyFile(p, i)

SpecFair ==
    Init /\ [][NextFair]_vars /\ \A t \in Threads : WF_vars(StepOf(t))

\* ------------------------------------------------ one caller, any writer
MaxRoom == 2       \* bytes a failing writer accepts before it fails, at most

\* The writers a caller passes: sound ones and ones that fail.
Writers == {Sound} \cup {[fails |-> TRUE, room |-> k] : k \in 0..MaxRoom}

\* The reader used by one goroutine at a time, as the tests use it: any
\* archive on disk, any writer.
NextSolo ==
    \/ \E q \in Requests, w \in Writers : StreamFile("t1", q[1], q[2], w)
    \/ \E p \in Direct : IndexZip("t1", p)
    \/ IzStat("t1")
    \/ IzQuery("t1")
    \/ IzDel1("t1")
    \/ IzDel2("t1")
    \/ IzfOpen("t1")
    \/ IzfInsFile("t1")
    \/ IzfRows("t1")
    \/ SfLookup2("t1")
    \/ SfMeta("t1")
    \/ SfRead("t1")
    \/ \E p \in Rewritten, i \in Images : ModifyFile(p, i)

SpecSolo == Init /\ [][NextSolo]_vars

\* ------------------------------------------------------- the HTTP handler
StatusOK == 200
StatusMovedPermanently == 301
StatusNotFound == 404
StatusInternalServerError == 500

readerVars == <<disk, files, contents, seq, tx, pc, op, zipPath, filename,
                zipID, fileInfo, zipReader, metadata, res, sink, writer, held>>

\* A server that hides nothing.
NothingHidden(s, name) == FALSE

\* !s.exposeHiddenFiles && strings.HasPrefix(name, ".")
Hidden(s, name) == ~s.exposeHiddenFiles /\ HasPrefix(name, <<".">>)

\* http.NotFound(w, r)
NotFound == [NoResponse EXCEPT !.status = StatusNotFound, !.kind = "error"]

\* http.ServeFile(w, r, path) for a regular file
ServeFile(path) ==
    [NoResponse EXCEPT !.status = StatusOK, !.kind = "file", !.file = path]

\* A redirect that keeps the path as it is.
RedirectSame(url) ==
    [NoResponse EXCEPT !.status = StatusMovedPermanently, !.kind = "redirect",
                       !.location = <<"/">> \o url]

\* http.Redirect(w, r, "/"+urlPath+"/", http.StatusMovedPermanently)
Redirect(url) ==
    [NoResponse EXCEPT !.status = StatusMovedPermanently, !.kind = "redirect",
                       !.location = <<"/">> \o url \o <<"/">>]

\* The name listDirectory shows for an entry: directories get a slash.
Shown(entry) == IF entry.dir THEN entry.name \o <<"/">> ELSE entry.name

RECURSIVE ListNames(_, _)
ListNames(s, entries) ==
    IF entries = <<>> THEN <<>>
    ELSE IF Hidden(s, Head(entries).name) THEN ListNames(s, Tail(entries))
    ELSE <<Shown(Head(entries))>> \o ListNames(s, Tail(entries))

\* s.listDirectory(w, dirPath, urlPath)
ListDirectory(s, dirPath) ==
    LET d == ReadDir(dirPath)
    IN  IF ~d.ok
        THEN [NoResponse EXCEPT !.status = StatusInternalServerError,
                                !.kind = "error"]
        ELSE [NoResponse EXCEPT !.status = StatusOK, !.kind = "listing",
                                !.file = dirPath,
                                !.listing = ListNames(s, d.entries)]

\* A handler that passes the remaining path as it is.
EntryNameAsIs(remaining) == remaining

\* if remainingPath == "" { remainingPath = "index.html" }
EntryName(remaining) == IF remaining = <<>> THEN IndexHtml ELSE remaining

\* The loop of ServeHTTP over parts from index i on, currentPath being dir,
\* and the test of archivePath after it: the response, or the container and
\* the entry name to stream.
RECURSIVE Resolve(_, _, _, _, _)
Resolve(s, url, parts, i, dir) ==
    IF i > Len(parts)
    THEN [stream |-> FALSE, archivePath |-> <<>>, remainingPath |-> <<>>,
          response |-> IF s.createIndexes THEN ListDirectory(s, dir)
                       ELSE NotFound]
    ELSE LET part == parts[i]
             currentPath == FilepathJoin(dir, part)
             stat == StatPath(currentPath)
             archiveCandidate == currentPath \o DotZip
             answer(r) == [stream |-> FALSE, archivePath |-> <<>>,
                           remainingPath |-> <<>>, response |-> r]
         IN  IF Hidden(s, part) THEN answer(NotFound)
             ELSE IF stat.ok /\ stat.dir
             THEN IF i = Len(parts) /\ s.createIndexes
                  THEN answer(ListDirectory(s, currentPath))
                  ELSE Resolve(s, url, parts, i + 1, currentPath)
             ELSE IF stat.ok THEN answer(ServeFile(currentPath))
             ELSE IF StatPath(archiveCandidate).ok
             THEN IF i = Len(parts) THEN answer(Redirect(url))
                  ELSE [stream |-> TRUE, archivePath |-> archiveCandidate,
                        remainingPath |->
                            EntryName(Join(SubSeq(parts, i + 1, Len(parts)), "/")),
                        response |-> Pending]
             ELSE Resolve(s, url, parts, i + 1, currentPath)

\* A handler that answers by the cause of the error.
AfterStreamByCause(r, out) ==
    IF r = "ok" \/ out # <<>>
    THEN [NoResponse EXCEPT !.status = StatusOK, !.kind = "stream"]
    ELSE IF r \in {"ErrNotFound", "ErrRead"} THEN NotFound
    ELSE [NoResponse EXCEPT !.status = StatusInternalServerError,
                            !.kind = "error"]

\* What the client is sent once StreamFile has returned r with out written
\* to the ResponseWriter: err != nil leads to http.NotFound, which sets the
\* status unless the first Write has sent the header already.
AfterStream(r, out) ==
    IF r = "ok" \/ out # <<>>
    THEN [NoResponse EXCEPT !.status = StatusOK, !.kind = "stream"]
    ELSE NotFound

MaxSegs == 3       \* segments of a request path, at most

Segments == {<<>>, <<"d">>, <<"f">>, <<".", "f">>, <<"A">>, <<"a">>}

\* The request paths: a slash and up to MaxSegs segments joined by slashes.
Urls ==
    {<<"/">> \o Join(segs, "/") :
        segs \in UNION {[1..n -> Segments] : n \in 1..MaxSegs}}

\* What ServeHTTP does with each request path, per Service.
Routes ==
    [s \in [createIndexes : BOOLEAN, exposeHiddenFiles : BOOLEAN] |->
        [path \in Urls |->
            LET url == TrimPrefix(path, <<"/">>)
            IN  Resolve(s, url, Split(url, "/"), 1, <<>>)]]

\* ServeHTTP up to its response, or up to StreamFile's first query when
\* the path leads into a container.  path is r.URL.Path.
ServeHTTP(t, path) ==
    /\ pc[t] \in {"idle", "done"}
    /\ response[t] = NoResponse
    /\ LET url == TrimPrefix(path, <<"/">>)
           r == Routes[service][path]
       IN  /\ urlPath' = [urlPath EXCEPT ![t] = url]
           /\ remainingPath' = [remainingPath EXCEPT ![t] = r.remainingPath]
           /\ response' = [response EXCEPT ![t] = r.response]
           /\ IF r.stream
              THEN SfLookup1(t, ContainerAt(r.archivePath),
                             Text(r.remainingPath), Sound)
              ELSE UNCHANGED readerVars
    /\ UNCHANGED <<flags, service>>

\* A request for any path reaches a goroutine that serves no other.
Request(t) ==
    /\ pc[t] \in {"idle", "done"}
    /\ response[t] = NoResponse
    /\ \E path \in Urls : ServeHTTP(t, path)

\* ServeHTTP after StreamFile has returned
ServeReturn(t) ==
    /\ pc[t] = "done"
    /\ response[t] = Pending
    /\ response' = [response EXCEPT ![t] = AfterStream(res[t], sink[t])]
    /\ UNCHANGED readerVars
    /\ UNCHANGED <<flags, service, urlPath, remainingPath>>

\* ServeHTTP has returned and the response is sent: the handler's locals
\* are gone.
ServeEnd(t) ==
    /\ pc[t] \in {"idle", "done"}
    /\ response[t] \notin {NoResponse, Pending}
    /\ urlPath' = [urlPath EXCEPT ![t] = <<>>]
    /\ remainingPath' = [remainingPath EXCEPT ![t] = <<>>]
    /\ response' = [response EXCEPT ![t] = NoResponse]
    /\ UNCHANGED readerVars
    /\ UNCHANGED <<flags, service>>

\* The server started with any flags on a directory whose container is any
\* of the files, answering one request at a time.
InitServe ==
    /\ \E i \in Images :
          InitReaderOn([p \in Paths |-> [img |-> IF p = "A" THEN i ELSE 1,
                                         mtime |-> 1]])
    /\ \E f \in Flags : InitService(f)

NextServe ==
    \/ Request("t1")
    \/ IzStat("t1")
    \/ IzQuery("t1")
    \/ IzfOpen("t1")
    \/ IzfInsFile("t1")
    \/ IzfRows("t1")
    \/ SfLookup2("t1")
    \/ SfMeta("t1")
    \/ SfRead("t1")
    \/ ServeReturn("t1")
    \/ ServeEnd("t1")

SpecServe == InitServe /\ [][NextServe]_vars

\* ------------------------------------------------------------ vocabulary
RowsIn(c, id) == {r \in c : r.zip_id = id}

NamesOf(i) == {Archives[i].entries[k].name : k \in DOMAIN Archives[i].entries}

\* The entry called n that archive i holds (n \in NamesOf(i)).
EntryOf(i, n) ==
    Archives[i].entries[CHOOSE k \in DOMAIN Archives[i].entries :
                            Archives[i].entries[k].name = n]

Parseable(i) == Archives[i].ok

\* The names every parseable archive holds: present in any old and any
\* new generation.
CommonNames == {n \in Names : \A i \in Images : Parseable(i) => n \in NamesOf(i)}

\* The rows a complete generation has under record r: one per entry of the
\* directory of the archive r was taken from (archives differ in size).
GenRows(r) ==
    LET i == CHOOSE j \in Images : FileSize(j) = r.size
    IN  {EntryRow(r.id, f) : f \in
            {Directories[i][k] : k \in DOMAIN Archives[i].entries}}

RecordsOf(fs, p) == {r \in fs : r.path = p}

\* The store holds, for p, nothing or one record with exactly its rows.
CompleteOrNothing(p) ==
    /\ Cardinality(RecordsOf(files, p)) <= 1
    /\ \A r \in RecordsOf(files, p) : RowsIn(contents, r.id) = GenRows(r)

\* No row without its record.
NoOrphans == \A r \in contents : \E f \in files : f.id = r.zip_id

Quiet == \A t \in Threads : pc[t] \in {"idle", "done"}

\* Thread t is inside the indexer past the freshness check.
Indexing(t) == pc[t] \in {"IzDel1", "IzDel2", "IzfOpen", "IzfInsFile", "IzfRows"}

\* ------------------------------------------------------------------ claims
\* C1: when StreamFile starts on a container whose record no longer matches
\* the file's size or modification time, it re-evaluates freshness (enters
\* the indexer) before it looks up the entry: it never goes on to the entry
\* lookup under the stale record.
C1_StreamRechecksFreshness ==
    [][\A t \in Threads :
          LET p == zipPath'[t]
              rec == LookupFile(p)
          IN  (/\ pc[t] \in {"idle", "done"}
               /\ pc'[t] # pc[t]
               /\ op'[t] = "StreamFile"
               /\ rec # NoRec
               /\ (rec.size # Stat(disk[p]).size \/ rec.mtime # Stat(disk[p]).mtime))
              => pc'[t] # "SfMeta"]_vars

\* C2: when the indexer, run on a path whose record is stale, fails because
\* the file no longer parses, the record it found and all of that record's
\* rows are still in the store.
C2_CorruptKeepsOldGeneration ==
    [][\A t \in Threads :
          (/\ pc[t] = "IzfOpen"
           /\ pc'[t] = "done"
           /\ res'[t] = "ErrZipReader"
           /\ ~Parseable(disk[zipPath[t]].img)
           /\ zipID[t] # 0)
          => \E r \in files' : /\ r.id = zipID[t]
                               /\ RowsIn(contents', r.id) = GenRows(r)]_vars

\* C3: whenever no call is in progress (also after a crash inside a
\* reindex), the store holds for every path either one complete generation
\* or nothing, and no row without its record.
C3_ReplaceIsAtomic ==
    Quiet => (NoOrphans /\ \A p \in Paths : CompleteOrNothing(p))

\* C4: a StreamFile that runs while another call reindexes the same
\* container never reports an entry missing that every generation of the
\* container holds.
C4_NoTornRead ==
    [][\A t \in Threads :
          (/\ pc[t] = "SfMeta"
           /\ pc'[t] = "done"
           /\ res'[t] = "ErrNotFound"
           /\ Parseable(disk[zipPath[t]].img)
           /\ \E u \in Threads \ {t} : zipPath[u] = zipPath[t] /\ Indexing(u))
          => filename[t] \notin CommonNames]_vars

\* The file at p has not been rewritten since the run began.
Untouched(p) == disk[p].mtime = 1

\* Every thread's latest call is a finished StreamFile on p.
AllStreamed(p) ==
    \A t \in Threads : pc[t] = "done" /\ op[t] = "StreamFile" /\ zipPath[t] = p

\* The store holds exactly one generation for p: one record, carrying the
\* file's size and modification time, and one row per directory entry.
OneGeneration(p) ==
    /\ Cardinality(RecordsOf(files, p)) = 1
    /\ \A r \in RecordsOf(files, p) :
          /\ r.size = Stat(disk[p]).size /\ r.mtime = Stat(disk[p]).mtime
          /\ RowsIn(contents, r.id) = GenRows(r)
          /\ Cardinality(RowsIn(contents, r.id)) = Len(Archives[disk[p].img].entries)

\* C5: once concurrent StreamFile calls against the same container, whose
\* (parseable) file was never indexed before them and is not rewritten, have
\* all returned, the store holds exactly one generation for that path.
C5_OneGenerationAfterHerd ==
    \A p \in Paths :
        (AllStreamed(p) /\ Untouched(p) /\ Parseable(disk[p].img)) => OneGeneration(p)

\* Two StreamFile calls raced to index the same container: one indexed it,
\* the other lost the race on the insert, both have returned.
C5_Witness ==
    \E p \in Paths :
        /\ AllStreamed(p) /\ Untouched(p) /\ OneGeneration(p)
        /\ {res[t] : t \in Threads} = {"ok", "ErrInsertFile"}

\* C6: every StreamFile for an existing entry of a parseable container that
\* is not rewritten returns success, also when other StreamFile calls
\* against the same container run at the same time.
C6_HerdAllSucceed ==
    \A t \in Threads :
        (/\ pc[t] = "done" /\ op[t] = "StreamFile"
         /\ Untouched(zipPath[t])
         /\ Parseable(disk[zipPath[t]].img)
         /\ filename[t] \in NamesOf(disk[zipPath[t]].img)
         /\ \A u \in Threads : op[u] = "StreamFile" /\ zipPath[u] = zipPath[t])
        => res[t] = "ok"

\* C7: two calls are never both past the freshness check (parsing the
\* directory or inserting rows) for the same path at the same time.
C7_IndexingSerialized ==
    \A t, u \in Threads :
        (t # u /\ Indexing(t) /\ Indexing(u)) => zipPath[t] # zipPath[u]

\* C8: a StreamFile that returns success for an entry of the container
\* file it read, encoded stored or deflate, has written exactly that
\* entry's uncompressed bytes to the writer.
C8_RoundTrip ==
    [][\A t \in Threads :
          LET i == disk[zipPath[t]].img
          IN  (/\ pc[t] = "SfRead"
               /\ pc'[t] = "done"
               /\ res'[t] = "ok"
               /\ Parseable(i)
               /\ filename[t] \in NamesOf(i)
               /\ EntryOf(i, filename[t]).method \in {Store, Deflate})
              => sink'[t] = EntryOf(i, filename[t]).data]_vars

\* C9: when the indexer, run on a path whose record is stale, commits the
\* new generation, the store then holds exactly one record for the path,
\* with the size and modification time it read, under an id above every id
\* stored before, with exactly the new directory's rows, and no row of the
\* old record is left.
C9_ReindexReplaces ==
    [][\A t \in Threads :
          (/\ pc[t] = "IzfRows"
           /\ files' # files
           /\ tx.owner = t
           /\ zipID[t] # 0)
          => /\ RecordsOf(files', zipPath[t]) = {tx.rec}
             /\ tx.rec.size = fileInfo[t].size /\ tx.rec.mtime = fileInfo[t].mtime
             /\ \A r \in files : r.id < tx.rec.id
             /\ tx.rec.id # zipID[t]
             /\ RowsIn(contents', tx.rec.id) = GenRows(tx.rec)
             /\ RowsIn(contents', zipID[t]) = {}]_vars

\* C10: when indexZip finds the path's record with the size and
\* modification time the file has, it returns success at once: it does not
\* go on to delete or to parse, and the store is left exactly as it was
\* (the step of a call that the process's stop cuts short is not a return).
C10_IndexIdempotent ==
    [][\A t \in Threads :
          LET rec == LookupFile(zipPath[t])
          IN  (/\ pc[t] = "IzQuery"
               /\ pc'[t] \notin {"IzQuery", "idle"}
               /\ rec # NoRec
               /\ rec.size = fileInfo[t].size
               /\ rec.mtime = fileInfo[t].mtime)
              => /\ <<files, contents, seq, tx>>' = <<files, contents, seq, tx>>
                 /\ LookupFile(zipPath[t])' = rec
                 /\ IF op[t] = "indexZip"
                    THEN pc'[t] = "done" /\ res'[t] = "ok"
                    ELSE pc'[t] = "SfLookup2"]_vars

\* Both threads called indexZip on the same unchanged file and returned
\* success, and one record was ever inserted: one call indexed, the other
\* found the file unchanged.
C10_Witness ==
    /\ \A t \in Threads : pc[t] = "done" /\ op[t] = "indexZip" /\ res[t] = "ok"
                          /\ zipPath[t] = "A"
    /\ Untouched("A")
    /\ seq = 1
    /\ OneGeneration("A")

\* The store is left as it was.
StoreUnchanged == <<files, contents, seq, tx>>' = <<files, contents, seq, tx>>

Fresh(p) ==
    /\ LookupFile(p) # NoRec
    /\ LookupFile(p).size = Stat(disk[p]).size
    /\ LookupFile(p).mtime = Stat(disk[p]).mtime
    /\ RowsIn(contents, LookupFile(p).id) = GenRows(LookupFile(p))

\* C12: the entry lookup of StreamFile, for every container id and every
\* name: a name that no row of the container's stored generation carries
\* ends the call with the entry-not-found error and nothing written; a name
\* that a row carries is found, with that row's offset, sizes and method.
C12_AbsentEntryNotFound ==
    [][\A t \in Threads :
          (pc[t] = "SfMeta" /\ pc'[t] \notin {"SfMeta", "idle"})
          => IF \E r \in RowsIn(contents, zipID[t]) : r.name = filename[t]
             THEN /\ pc'[t] = "SfRead"
                  /\ \E r \in RowsIn(contents, zipID[t]) :
                        /\ r.name = filename[t]
                        /\ metadata'[t] = [offset |-> r.offset, csize |-> r.csize,
                                           usize |-> r.usize, method |-> r.method,
                                           found |-> TRUE]
             ELSE /\ pc'[t] = "done"
                  /\ res'[t] = "ErrNotFound"
                  /\ sink'[t] = <<>>]_vars

\* StreamFile asked a freshly indexed container for a name its directory
\* does not hold, and returned entry-not-found.
C12_Witness ==
    \E t \in Threads :
        /\ pc[t] = "done" /\ op[t] = "StreamFile" /\ res[t] = "ErrNotFound"
        /\ Fresh(zipPath[t])
        /\ Parseable(disk[zipPath[t]].img)
        /\ filename[t] \notin NamesOf(disk[zipPath[t]].img)

\* Thread t's finished StreamFile asked for an entry that the archive on
\* disk holds in an encoding other than stored and deflate, and the
\* archive's record in the store is fresh.
AskedUnsupported(t) ==
    /\ pc[t] = "done" /\ op[t] = "StreamFile"
    /\ Fresh(zipPath[t])
    /\ Parseable(disk[zipPath[t]].img)
    /\ filename[t] \in NamesOf(disk[zipPath[t]].img)
    /\ EntryOf(disk[zipPath[t]].img, filename[t]).method \notin {Store, Deflate}

\* C13: the indexer records every directory entry with the method it has,
\* stored, deflate or other; and StreamFile on an entry whose encoding is
\* neither stored nor deflate fails with the unsupported-encoding error,
\* not with entry-not-found, and writes nothing.
C13_UnsupportedIsExplicit ==
    /\ [](\A t \in Threads : AskedUnsupported(t)
             => (res[t] = "ErrUnsupported" /\ sink[t] = <<>>))
    /\ [][\A t \in Threads :
             (pc[t] = "IzfRows" /\ files' # files)
             => \A i \in DOMAIN zipReader[t] :
                   \E r \in RowsIn(contents', tx.rec.id) :
                       /\ r.name = zipReader[t][i].name
                       /\ r.method = zipReader[t][i].method]_vars

\* StreamFile on the bzip2 entry of an indexed archive has returned the
\* unsupported-encoding error, and the entry's row is in the store.
C13_Witness ==
    \E t \in Threads :
        /\ AskedUnsupported(t)
        /\ res[t] = "ErrUnsupported"
        /\ \E r \in RowsIn(contents, LookupFile(zipPath[t]).id) :
              r.name = filename[t] /\ r.method = Bzip2

\* C14: when the file on disk is too short to hold compressed_size bytes at
\* the recorded offset, StreamFile fails with the read error and writes
\* nothing, instead of returning success with the bytes there are.
C14_ShortReadFails ==
    [][\A t \in Threads :
          (/\ pc[t] = "SfRead"
           /\ pc'[t] \notin {"SfRead", "idle"}
           /\ metadata[t].offset + metadata[t].csize > FileSize(disk[zipPath[t]].img))
          => (pc'[t] = "done" /\ res'[t] = "ErrRead" /\ sink'[t] = <<>>)]_vars

\* StreamFile has failed on the read: the file on disk is shorter than the
\* row of the entry it asked for says.
C14_Witness ==
    \E t \in Threads :
        /\ pc[t] = "done" /\ op[t] = "StreamFile" /\ res[t] = "ErrRead"
        /\ sink[t] = <<>>
        /\ \E r \in contents :
              /\ r.name = filename[t]
              /\ r.offset + r.csize > FileSize(disk[zipPath[t]].img)

\* The bytes thread t's StreamFile reads from the file on disk (none when
\* the file is too short).
Compressed(t) ==
    IF metadata[t].offset + metadata[t].csize <= FileSize(disk[zipPath[t]].img)
    THEN SubSeq(FileBytes(disk[zipPath[t]].img),
                metadata[t].offset + 1, metadata[t].offset + metadata[t].csize)
    ELSE <<>>

\* The whole payload those bytes stand for, by the method recorded.
WholePayload(t) ==
    IF metadata[t].method = Deflate THEN FlateDecode(Compressed(t)).out
    ELSE Compressed(t)

DecoderFails(t) ==
    metadata[t].method = Deflate /\ ~FlateDecode(Compressed(t)).ok

WriterFails(t) ==
    writer[t].fails /\ Len(WholePayload(t)) > writer[t].room

\* C15: StreamFile returns success only when the whole uncompressed
\* payload has been written to the writer: when the decoder or a write
\* fails during the copy the call returns an error, also when bytes had
\* been written before the failure.
C15_SuccessMeansAllWritten ==
    [][\A t \in Threads :
          (pc[t] = "SfRead" /\ pc'[t] = "done")
          => /\ res'[t] = "ok" => sink'[t] = WholePayload(t)
             /\ (DecoderFails(t) \/ WriterFails(t)) => res'[t] # "ok"]_vars

\* A StreamFile whose writer failed after taking some bytes has returned
\* the write error.
C15_Witness ==
    \E t \in Threads :
        /\ pc[t] = "done" /\ op[t] = "StreamFile"
        /\ res[t] = "ErrWrite"
        /\ sink[t] # <<>>

\* Thread t's StreamFile on a parseable container whose file has not been
\* rewritten, for an entry of it, has returned.
StreamedUntouched(t) ==
    /\ pc[t] = "done" /\ op[t] = "StreamFile"
    /\ Untouched(zipPath[t])
    /\ Parseable(disk[zipPath[t]].img)
    /\ filename[t] \in NamesOf(disk[zipPath[t]].img)

\* C16: with one caller at a time, a StreamFile call on a parseable,
\* unchanged container returns with the container's record and all its
\* rows stored, whether or not there was a record when it began, and has
\* streamed the entry in that same call (short of its writer failing); and
\* a StreamFile call that begins when the path has a record goes straight
\* to the entry lookup, without stat and without parsing the directory,
\* while one that begins without a record enters the indexer.
C16_LazyIndexThenStream ==
    /\ [](\A t \in Threads : StreamedUntouched(t)
             => /\ OneGeneration(zipPath[t])
                /\ res[t] \in {"ok", "ErrWrite"}
                /\ res[t] = "ok"
                   => sink[t] = EntryOf(disk[zipPath[t]].img, filename[t]).data)
    /\ [][\A t \in Threads :
             (/\ pc[t] \in {"idle", "done"}
              /\ pc'[t] \notin {"idle", "done"}
              /\ op'[t] = "StreamFile")
             => IF \E r \in files : r.path = zipPath'[t]
                THEN pc'[t] = "SfMeta"
                ELSE pc'[t] = "IzStat"]_vars

\* The first StreamFile on a container indexed it and streamed the entry.
C16_Witness ==
    \E t \in Threads :
        /\ StreamedUntouched(t)
        /\ res[t] = "ok"
        /\ sink[t] = EntryOf(disk[zipPath[t]].img, filename[t]).data
        /\ sink[t] # <<>>
        /\ seq = 1
        /\ OneGeneration(zipPath[t])

\* The records of path q in store fs, and the rows under them in cs.
GenerationOf(fs, cs, q) ==
    [recs |-> RecordsOf(fs, q),
     rows |-> {r \in cs : \E f \in RecordsOf(fs, q) : f.id = r.zip_id}]

\* C17: a step of a call on one container leaves the record and the rows of
\* every other container as they were, and the call's insert of its record
\* fails only for a reason of its own path (the path has a record, or
\* another call is inserting that same path), never because another
\* container is being indexed.
C17_ContainersIndependent ==
    [][\A t \in Threads :
          (pc'[t] \notin {pc[t], "idle"})
          => /\ \A q \in Paths \ {zipPath'[t]} :
                   GenerationOf(files', contents', q) = GenerationOf(files, contents, q)
             /\ (pc[t] = "IzfInsFile" /\ res'[t] = "ErrInsertFile")
                => \/ PathTaken(zipPath[t])
                   \/ (tx.owner # "" /\ tx.rec.path = zipPath[t])]_vars

\* C18: a call that is not in progress has nothing open: whenever a thread
\* is idle or has returned, on whatever exit path, success or error, it
\* holds no file handle, no decoder, no prepared statement and no
\* transaction, and the store's write lock is not its own.
C18_ExitsReleaseAll ==
    \A t \in Threads :
        pc[t] \in {"idle", "done"} => (held[t] = {} /\ tx.owner # t)

\* A call has left the indexer on an error exit taken with the container
\* file open and a transaction begun, and holds nothing.
C18_Witness ==
    \E t \in Threads :
        /\ pc[t] = "done" /\ res[t] = "ErrInsertFile"
        /\ held[t] = {} /\ tx.owner # t

\* C19: a restart (the reader closed or the process gone, and a new reader
\* constructed on the same database) keeps every committed record and row
\* and the id sequence; and an indexZip that finds the record of its path
\* matching the file, as it does after a restart on an unchanged
\* container, neither deletes nor parses.
C19_StoreSurvivesRestart ==
    /\ [][Restart => (files' = files /\ contents' = contents /\ seq' = seq)]_vars
    /\ [][\A t \in Threads :
             (/\ pc[t] = "IzQuery"
              /\ \E r \in files : /\ r.path = zipPath[t]
                                  /\ r.size = fileInfo[t].size
                                  /\ r.mtime = fileInfo[t].mtime)
             => pc'[t] \notin {"IzDel1", "IzfOpen"}]_vars

\* After a restart: no call has begun yet and the store holds the records
\* and rows committed before.
C19_Witness ==
    /\ \A t \in Threads : pc[t] = "idle" /\ op[t] = ""
    /\ files # {}
    /\ \A r \in files : RowsIn(contents, r.id) = GenRows(r)

\* C20: when a store operation of a reindex fails, the call returns an
\* error and the old generation is still completely in the store: a DELETE
\* that fails ends the call with an error, and a call that replaces the
\* record zipID and fails on an insert leaves that record with all its rows.
C20_FailedReplaceKeepsOld ==
    [][\A t \in Threads :
          /\ (/\ pc[t] \in {"IzDel1", "IzDel2"}
              /\ Busy(t)
              /\ pc'[t] \notin {pc[t], "idle"})
             => (pc'[t] = "done" /\ res'[t] # "ok")
          /\ (/\ pc[t] \in {"IzfInsFile", "IzfRows"}
              /\ zipID[t] # 0
              /\ pc'[t] = "done"
              /\ res'[t] \in {"ErrInsertFile", "ErrInsertRow"})
             => \E r \in files' : /\ r.id = zipID[t]
                                  /\ RowsIn(contents', r.id) = GenRows(r)]_vars

\* ------------------------------------------------- claims on the handler
\* The request of thread t has its response.
Answered(t) == response[t] \notin {NoResponse, Pending}

\* The request of thread t led into a container and StreamFile has
\* returned to the handler, which has answered.
Streamed(t) == Answered(t) /\ remainingPath[t] # <<>>

\* The errors of the indexer and of the store, as opposed to those of a
\* missing entry or a read that fails.
IndexingErrors == {"ErrZipReader", "ErrInsertFile", "ErrInsertRow", "ErrDatabase"}

C22_IndexingErrorsAreServerErrors ==
    \A t \in Threads :
        Streamed(t) /\ res[t] \in IndexingErrors
            => response[t].status = StatusInternalServerError

\* The path below rootServiceDir that the first i segments of parts name.
RECURSIVE PathOf(_, _)
PathOf(parts, i) ==
    IF i = 0 THEN <<>> ELSE FilepathJoin(PathOf(parts, i - 1), parts[i])

\* The first i segments name a regular file, or name nothing while the
\* same path with ".zip" exists: a file or a container is resolved there.
StopsAt(parts, i) ==
    LET p == PathOf(parts, i)
    IN  IF StatPath(p).ok THEN ~StatPath(p).dir ELSE StatPath(p \o DotZip).ok

\* The segment at which a file or a container is resolved, or the last one.
ResolvedAt(parts) ==
    IF \E i \in DOMAIN parts : StopsAt(parts, i)
    THEN CHOOSE i \in DOMAIN parts :
             StopsAt(parts, i) /\ \A j \in 1..(i - 1) : ~StopsAt(parts, j)
    ELSE Len(parts)

\* A segment starting with '.' at or before that point.
HiddenBefore(parts) ==
    \E k \in 1..ResolvedAt(parts) : HasPrefix(parts[k], <<".">>)

\* The response is a listing that shows an entry starting with '.'.
ListsHidden(r) ==
    r.kind = "listing" /\ \E k \in DOMAIN r.listing : HasPrefix(r.listing[k], <<".">>)

\* C23: started with show-hidden-files enabled, the server does not reject
\* a request for a segment starting with '.' (the hidden file .f is served)
\* and a listing of the service directory shows its hidden entries.
C23_ShowHiddenFilesServesHidden ==
    \A t \in Threads :
        flags.showHiddenFiles /\ Answered(t) =>
            /\ Split(urlPath[t], "/")[1] = <<".", "f">>
                  => response[t] = ServeFile(<<".", "f">>)
            /\ response[t].kind = "listing" /\ response[t].file = <<>>
                  => ListsHidden(response[t])

\* C24: with show-hidden-files disabled, a request with a segment starting
\* with '.' at or before the point where a file, directory or container is
\* resolved gets 404 and neither a file nor a container is served, and no
\* listing shows an entry starting with '.'.
C24_HiddenIsNotFound ==
    \A t \in Threads :
        ~flags.showHiddenFiles /\ Answered(t) =>
            /\ HiddenBefore(Split(urlPath[t], "/"))
                  => response[t] = NotFound /\ remainingPath[t] = <<>>
            /\ ~ListsHidden(response[t])

\* The hidden file of a directory has been asked for and refused.
C24_Witness ==
    /\ ~flags.showHiddenFiles
    /\ urlPath["t1"] = <<"d", "/", ".", "f">>
    /\ response["t1"] = NotFound

\* The last segment of parts names a container root: nothing is resolved
\* before it, no file or directory of that name exists and name + ".zip" does.
ContainerRoot(parts) ==
    /\ ResolvedAt(parts) = Len(parts)
    /\ ~StatPath(PathOf(parts, Len(parts))).ok
    /\ StatPath(PathOf(parts, Len(parts)) \o DotZip).ok

InsideContainer(url) ==
    LET parts == Split(url, "/")
        skip == Len(Join(SubSeq(parts, 1, ResolvedAt(parts)), "/")) + 1
    IN  SubSeq(url, skip + 1, Len(url))

\* C26: when the handler calls StreamFile, the entry name it passes is
\* "index.html" if nothing follows the container in the request path, and
\* otherwise what follows it, segments joined with '/'.
C26_EntryNameFromPath ==
    [][\A t \in Threads :
          response[t] = NoResponse /\ response'[t] = Pending
          => /\ remainingPath'[t] =
                   IF InsideContainer(urlPath'[t]) = <<>> THEN IndexHtml
                   ELSE InsideContainer(urlPath'[t])
             /\ filename'[t] = Text(remainingPath'[t])
             /\ zipPath'[t] = "A"]_vars

\* /A/ has been requested and StreamFile is running for index.html.
C26_Witness ==
    /\ urlPath["t1"] = <<"A", "/">>
    /\ response["t1"] = Pending
    /\ remainingPath["t1"] = IndexHtml

\* ---------------------------------------------------- claims on the store
\* C27: in every reachable state the store holds at most one container
\* record per path, the record of an open transaction included, and at
\* most one entry row per (container id, entry name).
C27_StoreKeysUnique ==
    /\ \A r1, r2 \in files : r1.path = r2.path => r1 = r2
    /\ tx.owner # "" => \A r \in files : r.path # tx.rec.path
    /\ \A r1, r2 \in contents :
          r1.zip_id = r2.zip_id /\ r1.name = r2.name => r1 = r2

\* Container A has been indexed a second time and no call is running.
C27_Witness ==
    /\ Quiet
    /\ \E r \in files : r.path = "A" /\ r.id > 1 /\ RowsOf(r.id) # {}

\* C28: in every reachable state every entry row refers to a container
\* record that exists, also after a reindex one of whose DELETEs failed.
C28_EveryRowHasItsRecord ==
    \A r \in contents : \E f \in files : f.id = r.zip_id

\* Thread t takes a step of its call (the process does not stop).
Steps(t) == pc'[t] # pc[t] /\ pc'[t] # "idle"

\* C29: a StreamFile call that finds the container's record goes straight
\* to the entry lookup, and neither that first query nor the entry lookup
\* nor the read of the payload inserts, deletes or updates anything in the
\* store, whatever other calls run at the same time.
C29_RecordedStreamOnlyReads ==
    [][\A t \in Threads :
          /\ Steps(t) /\ pc[t] \in {"idle", "done"} /\ op'[t] = "StreamFile"
                /\ LookupFile(zipPath'[t]) # NoRec
                => pc'[t] = "SfMeta" /\ StoreUnchanged
          /\ Steps(t) /\ pc[t] \in {"SfMeta", "SfRead"}
                => pc'[t] \in {"SfRead", "done"} /\ StoreUnchanged]_vars

\* Two calls read the payload of recorded container A at the same time.
C29_Witness ==
    /\ \A t \in Threads : pc[t] = "SfRead" /\ zipPath[t] = "A"
    /\ LookupFile("A") # NoRec
    /\ tx = NoTx

\* The statements of indexZip and StreamFile in the order a call reaches them.
Rank(p) ==
    CASE p = "IzStat" -> 1 [] p = "IzQuery" -> 2 [] p = "IzDel1" -> 3
      [] p = "IzDel2" -> 4 [] p = "IzfOpen" -> 5 [] p = "IzfInsFile" -> 6
      [] p = "IzfRows" -> 7 [] p = "SfLookup2" -> 8 [] p = "SfMeta" -> 9
      [] p = "SfRead" -> 10 [] p = "done" -> 11 [] OTHER -> 0

\* Thread t is inside a StreamFile call.
InStreamFile(t) == op[t] = "StreamFile" /\ pc[t] \notin {"idle", "done"}

\* C30: every StreamFile call ends, with success or with one error, and
\* never goes back: each of its steps is at a later statement than the one
\* before, so it enters the indexer at most once and opens the container to
\* read the payload at most once, and it has no result before it returns.
C30_StreamFileTerminates ==
    /\ \A t \in Threads : InStreamFile(t) ~> ~InStreamFile(t)
    /\ [][\A t \in Threads :
             InStreamFile(t) /\ Steps(t)
             => /\ Rank(pc'[t]) > Rank(pc[t])
                /\ res[t] = "none"
                /\ pc'[t] = "done" <=> res'[t] # "none"]_vars

\* A call that ran the indexer and read the payload has returned success.
C30_Witness ==
    \E t \in Threads :
        /\ pc[t] = "done" /\ op[t] = "StreamFile" /\ res[t] = "ok"
        /\ sink[t] # <<>>
        /\ \E r \in files : r.path = zipPath[t] /\ r.id = seq

\* ------------------------------------------------ claims on failed calls
\* The errors StreamFile returns before it decodes or copies anything: from
\* the indexer, the lookups, the read of the payload and the method test.
EarlyErrors ==
    {"ErrZipReader", "ErrInsertFile", "ErrInsertRow", "ErrDatabase",
     "ErrNotFound", "ErrRead", "ErrUnsupported"}

\* C31: whenever StreamFile has failed before the decode/copy step (the
\* container cannot be parsed, the entry is not found, the read fails, the
\* encoding is unsupported), nothing has been written to the sink.
C31_EarlyFailureWritesNothing ==
    \A t \in Threads :
        pc[t] = "done" /\ op[t] = "StreamFile" /\ res[t] \in EarlyErrors
            => sink[t] = <<>>

\* A call for an entry in an unsupported encoding has failed, its payload
\* read, with an empty sink.
C31_Witness ==
    /\ pc["t1"] = "done" /\ op["t1"] = "StreamFile"
    /\ res["t1"] = "ErrUnsupported"
    /\ sink["t1"] = <<>>

\* The directory d lists two entries with the same name.
ListsNameTwice(d) ==
    \E i, j \in DOMAIN d : i # j /\ d[i].name = d[j].name

\* C32: a container whose directory lists two entries with the same name
\* cannot be indexed: the row inserts of indexZipFile end with an error,
\* the transaction is rolled back, the call returns the error, and the
\* store holds no record and no entry row for that path afterwards.
C32_DuplicateNamesNotIndexed ==
    [][\A t \in Threads :
          pc[t] = "IzfRows" /\ Steps(t) /\ ListsNameTwice(zipReader[t])
          => /\ pc'[t] = "done" /\ res'[t] = "ErrInsertRow"
             /\ tx' = NoTx
             /\ <<files, contents, seq>>' = <<files, contents, seq>>
             /\ \A f \in files' : f.path # zipPath[t]
             /\ \A r \in contents' : r.zip_id # tx.rec.id]_vars

\* indexZip has failed on the container with two entries named a, and the
\* store has no record for its path.
C32_Witness ==
    /\ pc["t1"] = "done" /\ res["t1"] = "ErrInsertRow"
    /\ ListsNameTwice(Directories[disk[zipPath["t1"]].img])
    /\ LookupFile(zipPath["t1"]) = NoRec

====
